---- MODULE Spec2Model ----
(***************************************************************************)
(* Model of the UltraDNS Slack bot: the batch command handlers of app.py   *)
(* (analyze_zone_file, zone_health_check), the task polling of             *)
(* UltraDNSClient (dns_client.py), the conversation protocol of            *)
(* AssistantClient (asst_client.py) and the response extraction of         *)
(* InferenceClient (inf_client.py).                                        *)
(*                                                                         *)
(* One command invocation is one behaviour.  Every remote call is one      *)
(* step; the response of the remote side is chosen nondeterministically.   *)
(* `log` is the record of the remote calls, returns and raises of the      *)
(* current operation (the fetch or the inference request) of the current   *)
(* entity; it is started afresh by the first step of the next operation    *)
(* and dropped when the handler emits its report.                          *)
(***************************************************************************)
EXTENDS Integers, Sequences, FiniteSets, TLC

VARIABLES
    handler,        \* the command handler that is running (app.py)
    zones,          \* app.py:72 / 106, the parsed list of zone names
    pc,             \* position of the handler
    i,              \* index in zones of the loop variable zone_name
    results,        \* app.py:79 / 113
    responded,      \* the messages passed to respond, in order
    log,            \* calls / returns / raises of the current entity's pipeline
    task_id,        \* dns_client.py:53
    location,       \* dns_client.py:71
    polls,          \* number of time.sleep(10) taken by the current poll loop
    fetched,        \* zone_data / health_check, the value returned by the fetch
    assistant_id,   \* asst_client.py:39
    thread_id,      \* asst_client.py:120
    threads,        \* the threads created on the remote side, one per create
    runs,           \* the runs started on the remote side
    request,        \* number of inference requests started so far
    raw_messages,   \* inf_client.py:79
    response_text,  \* inf_client.py:148
    store,          \* initialize.py: the contents of config.json
    ipc,            \* initialize.py: position of the script
    ids,            \* initialize.py:213-232, the identifiers created by this run
    hist            \* initialize.py: one record for each run of the script

vars == <<handler, zones, pc, i, results, responded, log, task_id, location,
          polls, fetched, assistant_id, thread_id, threads, runs, request,
          raw_messages, response_text, store, ipc, ids, hist>>

\* ---------------------------------------------------------------- bounds
MaxZones == 2       \* longest list of zone names of one command
MaxPolls == 2       \* most sleeps of one poll loop before a terminal answer
MaxMessages == 2    \* longest message list of the exhaustive response check
MaxParts == 2       \* most content parts of one message there
MaxValidations == 2 \* most calls of the validation in succession
MaxRuns == 2        \* most runs of initialize.py, one after the other

\* ---------------------------------------------------------------- values
Names == {"good.example", "bad.example"}

None == "None"

Handlers == {"analyze_zone_file", "zone_health_check"}

\* All sequences over S of length 0..n.
SeqsUpTo(S, n) == UNION {[1..k -> S] : k \in 0..n}

\* An exception: its Python type, its message and the value formatted into it.
Exc(type, msg, detail) == [type |-> type, msg |-> msg, detail |-> detail]

\* One entry of log: a remote call (fn names the endpoint, arg is the path or
\* identifier it was given, resp the answer, always a record), the normal
\* return of a method, or the exception a method raised.
Call(fn, arg, resp) == [ev |-> "call", fn |-> fn, arg |-> arg, resp |-> resp]
Return(fn, val) == [ev |-> "return", fn |-> fn, arg |-> None, resp |-> val]
Raise(fn, e) == [ev |-> "raise", fn |-> fn, arg |-> None, resp |-> e]

\* ------------------------------------------------- app.py: the batch loop
\* The outcome strings appended to results (app.py:84/86, 118/120).
SuccessOutcome(h, name) ==
    [zone |-> name, ok |-> TRUE,
     msg |-> IF h = "analyze_zone_file" THEN "analyzed successfully."
                                         ELSE "health check completed."]

ErrorOutcome(name, e) == [zone |-> name, ok |-> FALSE, msg |-> e.msg]

\* The for statement of app.py:80 / 114: the position after entity k is done.
LoopNext(k) == IF k + 1 <= Len(zones) THEN "validate" ELSE "report"

\* A mutant that leaves the loop at the first failure.
ExceptAbort(k) == "report"

\* A mutant that goes on to the inference after a failed fetch.
ExceptThenInfer(k) == "load_id"

\* except Exception as e (app.py:85-86, 119-120): the error outcome is
\* appended and the loop goes on with the next name.
ExceptNext(k) == LoopNext(k)

\* A mutant that catches ValueError only.
CaughtValueErrorOnly(e) == e.type = "ValueError"

\* except Exception (app.py:85, 119) catches every exception a fetch or an
\* inference raises: all of them derive from Exception.
Caught(e) == TRUE

\* An exception that reaches the loop of the handler: caught, or the handler
\* ends with it.
Except(e) ==
    IF Caught(e)
    THEN /\ results' = Append(results, ErrorOutcome(zones[i], e))
         /\ pc' = ExceptNext(i)
         /\ i' = i + 1
    ELSE /\ pc' = "crashed"
         /\ UNCHANGED <<results, i>>

\* app.py:84 / 118: the inference call returned, the success outcome follows.
\* A mutant that goes on to the next name without recording the outcome.
SucceedUnrecorded ==
    /\ pc' = LoopNext(i)
    /\ i' = i + 1
    /\ UNCHANGED results

Succeed ==
    /\ results' = Append(results, SuccessOutcome(handler, zones[i]))
    /\ pc' = LoopNext(i)
    /\ i' = i + 1

\* A message passed to respond: its kind, its text and, for the aggregate
\* report, the outcomes joined into it.
Message(kind, text, outcomes) == [kind |-> kind, text |-> text, outcomes |-> outcomes]

\* An assistant identifier as the config file holds it: whether the key is
\* there, the prefix of the value, and the length and character class of
\* what follows the prefix.
AsstId(present, prefix, len, alnum) ==
    [present |-> present, prefix |-> prefix, len |-> len, alnum |-> alnum]

NoId == AsstId(FALSE, "", 0, TRUE)

\* The variables of initialize.py, a script of its own.
initVars == <<store, ipc, ids, hist>>

\* config.json: what the file is (missing, not JSON, a JSON list, a JSON
\* object) and, for an object, the values of the four keys in the order of
\* initialize.py:159-162.
Store(file, values) == [file |-> file, values |-> values]

MissingStore == Store("missing", <<>>)

\* While a command handler runs, the script does not.
IdleInit ==
    /\ store = MissingStore
    /\ ipc = "idle"
    /\ ids = <<>>
    /\ hist = <<>>

\* The handler of /udns-system-status (app.py:32-54).
StatusHandler == "udns_system_status"

Init ==
    /\ handler \in Handlers \cup {StatusHandler}
    /\ zones \in IF handler \in Handlers THEN SeqsUpTo(Names, MaxZones) ELSE {<<>>}
    /\ pc = IF handler \in Handlers THEN "auth" ELSE "status_client"
    /\ i = 1
    /\ results = <<>>
    /\ responded = <<>>
    /\ log = <<>>
    /\ task_id = None
    /\ location = None
    /\ polls = 0
    /\ fetched = None
    /\ assistant_id = NoId
    /\ thread_id = 0
    /\ threads = <<>>
    /\ runs = <<>>
    /\ request = 0
    /\ raw_messages = <<>>
    /\ response_text = ""
    /\ IdleInit

\* A mutant without the return of line 77.
AfterAuthNoReturn(ok) == IF Len(zones) >= 1 THEN "validate" ELSE "report"

\* app.py:73-79 / 107-113: the loop is entered when the client was built,
\* the handler returns when it was not.
AfterAuth(ok) ==
    IF ok THEN (IF Len(zones) >= 1 THEN "validate" ELSE "report") ELSE "done"

\* UltraDNSClient.__init__ called by the handler (app.py:73-77, 107-111).
Authenticate ==
    /\ pc = "auth"
    /\ \E ok \in BOOLEAN :
         /\ pc' = AfterAuth(ok)
         /\ responded' = IF ok THEN responded
                         ELSE Append(responded,
                                Message("auth_failed", "Authentication failed: ", <<>>))
    /\ UNCHANGED <<handler, zones, i, results, log, task_id, location, polls,
                   fetched, assistant_id, thread_id, threads, runs, request,
                   raw_messages, response_text>>
    /\ UNCHANGED initVars

\* ------------------------------------------------ dns_client.py: the fetch
inferVars == <<assistant_id, thread_id, threads, runs, request, raw_messages,
               response_text>>

NoExc == Exc("None", "", "")

Raises(e) == e.type # "None"

\* The shapes of the answer to GET /v3/zones/{zone_name}.
ZoneResponses ==
    { [shape |-> "dict",   len |-> 0, firstIsDict |-> FALSE, hasErrorMessage |-> FALSE],
      [shape |-> "list",   len |-> 0, firstIsDict |-> FALSE, hasErrorMessage |-> FALSE],
      [shape |-> "list",   len |-> 1, firstIsDict |-> TRUE,  hasErrorMessage |-> TRUE],
      [shape |-> "list",   len |-> 1, firstIsDict |-> TRUE,  hasErrorMessage |-> FALSE],
      [shape |-> "list",   len |-> 1, firstIsDict |-> FALSE, hasErrorMessage |-> FALSE],
      [shape |-> "str",    len |-> 0, firstIsDict |-> FALSE, hasErrorMessage |-> FALSE],
      [shape |-> "number", len |-> 0, firstIsDict |-> FALSE, hasErrorMessage |-> FALSE] }

\* A mutant with the test of the last branch inverted: a dict is rejected.
ValidateOutcomeDictRejected(response) ==
    IF response.shape = "dict"
    THEN Exc("ValueError", "Unexpected response format while validating zone", "dict")
    ELSE NoExc

\* The body of _validate_zone_exists after the GET: the exception it raises
\* for a response, NoExc when it returns.
ValidateOutcome(response) ==
    IF response.shape = "list"
    THEN IF response.len = 0
         THEN Exc("IndexError", "list index out of range", "")
         ELSE IF response.firstIsDict /\ response.hasErrorMessage
              THEN Exc("ValueError", "Zone validation failed: ", "errorMessage")
              ELSE NoExc
    ELSE IF response.shape # "dict"
         THEN Exc("ValueError", "Unexpected response format while validating zone",
                  response.shape)
         ELSE NoExc

\* fetch_zone_data, lines 52-53: what follows the validation call.  A mutant
\* that goes on to the submission whatever the validation did.
fetch_zone_data_swallow(e) == "export"

fetch_zone_data(e) == IF Raises(e) THEN "except" ELSE "export"

\* fetch_health_check, lines 70-71.
fetch_health_check(e) == IF Raises(e) THEN "except" ELSE "healthcheck"

validate_zone_exists ==
    /\ pc = "validate"
    /\ \E response \in ZoneResponses :
         LET e == ValidateOutcome(response)
             nxt == IF handler = "analyze_zone_file"
                    THEN fetch_zone_data(e) ELSE fetch_health_check(e)
         IN  /\ log' = << Call("GET zone", "/v3/zones/" \o zones[i], response),
                          IF Raises(e) THEN Raise("_validate_zone_exists", e)
                                       ELSE Return("_validate_zone_exists", None) >>
             /\ IF nxt = "except"
                THEN Except(e)
                ELSE pc' = nxt /\ UNCHANGED <<results, i>>
    /\ task_id' = None /\ location' = None /\ polls' = 0 /\ fetched' = None
    /\ assistant_id' = NoId /\ thread_id' = 0
    /\ raw_messages' = <<>> /\ response_text' = ""
    /\ UNCHANGED <<handler, zones, responded, threads, runs, request>>
    /\ UNCHANGED initVars

\* The task identifiers and location handles the remote side hands out.
TaskIds == {"task-1", "task-2"}

Locations == {"/v1/zones/healthchecks/1", "/v1/zones/healthchecks/2"}

\* The responses of POST /v3/zones/export: the task identifier and another
\* field that holds a different identifier.
ExportResponses ==
    {r \in [task_id : TaskIds, other_id : TaskIds] : r.other_id # r.task_id}

\* A mutant that takes the identifier from the other field.
export_task_id_other(response) == response.other_id

\* return response["task_id"], dns_client.py:108.
export_task_id(response) == response.task_id

initiate_zone_export ==
    /\ pc = "export"
    /\ \E response \in ExportResponses :
         /\ log' = log \o << Call("POST export", "/v3/zones/export", response),
                             Return("_initiate_zone_export", export_task_id(response)) >>
         /\ task_id' = export_task_id(response)
    /\ pc' = "poll"
    /\ UNCHANGED <<handler, zones, i, results, responded, location, polls, fetched>>
    /\ UNCHANGED inferVars
    /\ UNCHANGED initVars

\* The status codes of GET /tasks/{task_id}; RUNNING stands for any value
\* that is none of the documented three.
ExportCodes == {"PENDING", "COMPLETE", "ERROR", "RUNNING"}

\* A mutant that takes a code it does not know for an error.
poll_decision_unknown_error(code) ==
    IF code = "COMPLETE" THEN "break"
    ELSE IF code = "PENDING" THEN "sleep"
    ELSE "raise"

\* A mutant that polls again after ERROR.
poll_decision_retry(code) ==
    IF code = "COMPLETE" THEN "break" ELSE "sleep"

\* A mutant that leaves the loop on every code but ERROR.
poll_decision_eager(code) ==
    IF code = "ERROR" THEN "raise" ELSE "break"

\* The body of the while loop of _poll_task_status, lines 122-126.
poll_decision(code) ==
    IF code = "COMPLETE" THEN "break"
    ELSE IF code = "ERROR" THEN "raise"
    ELSE "sleep"

poll_task_status ==
    /\ pc = "poll"
    /\ \E code \in ExportCodes :
         LET response == [code |-> code]
             d == poll_decision(code)
             e == Exc("Exception", "Error processing task", code)
             call == Call("GET task", "/tasks/" \o task_id, response)
         IN  /\ d = "sleep" => polls < MaxPolls
             /\ CASE d = "break" ->
                       /\ log' = log \o <<call, Return("_poll_task_status", None)>>
                       /\ pc' = "download"
                       /\ UNCHANGED <<results, i, polls>>
                  [] d = "raise" ->
                       /\ log' = log \o <<call, Raise("_poll_task_status", e)>>
                       /\ Except(e)
                       /\ UNCHANGED polls
                  [] OTHER ->
                       /\ log' = Append(log, call)
                       /\ polls' = polls + 1
                       /\ UNCHANGED <<pc, results, i>>
    /\ UNCHANGED <<handler, zones, responded, task_id, location, fetched>>
    /\ UNCHANGED inferVars
    /\ UNCHANGED initVars

\* The payloads of GET /tasks/{task_id}/result.
\* An exported zone file names its zone.
ZoneFiles(zone) == {"$ORIGIN " \o zone \o "."}

\* A mutant that returns the payload changed.
fetch_result_stripped(data) == "strip(" \o data \o ")"

\* return self.client.get(...), dns_client.py:138 and 55: the payload as it
\* came.
fetch_result(data) == data

download_exported_data ==
    /\ pc = "download"
    /\ \E data \in ZoneFiles(zones[i]) :
         /\ log' = log \o << Call("GET result", "/tasks/" \o task_id \o "/result",
                                  [body |-> data]),
                             Return("fetch_zone_data", fetch_result(data)) >>
         /\ fetched' = fetch_result(data)
    /\ pc' = "load_id"
    /\ UNCHANGED <<handler, zones, i, results, responded, task_id, location, polls>>
    /\ UNCHANGED inferVars
    /\ UNCHANGED initVars

initiate_health_check ==
    /\ pc = "healthcheck"
    /\ \E l \in Locations :
         LET response == [location |-> l]
         IN  /\ log' = log \o << Call("POST healthchecks",
                                      "/v1/zones/" \o zones[i] \o "/healthchecks", response),
                                 Return("_initiate_health_check", response.location) >>
             /\ location' = response.location
    /\ pc' = "hc_poll"
    /\ UNCHANGED <<handler, zones, i, results, responded, task_id, polls, fetched>>
    /\ UNCHANGED inferVars
    /\ UNCHANGED initVars

\* The states of a health check; QUEUED stands for any value that is none of
\* the documented three.
HealthStates == {"IN_PROGRESS", "COMPLETED", "FAILED", "QUEUED"}

\* The results of a completed health check name the zone they are about.
HealthBodies(zone) == {"checks of " \o zone}

\* The responses of GET {location}: the state and, once the check has
\* completed, its results.
HealthResponses(zone) ==
    {[state |-> s, body |-> ""] : s \in HealthStates \ {"COMPLETED"}}
        \cup {[state |-> "COMPLETED", body |-> b] : b \in HealthBodies(zone)}

\* A mutant that serializes the state of the response only.
dumps_state_only(response) == "{\"state\": \"" \o response.state \o "\"}"

\* json.dumps of a health-check response (dns_client.py:172).
Dumps(response) ==
    "{\"state\": \"" \o response.state \o "\", \"body\": \"" \o response.body \o "\"}"

\* A mutant that gives up on a state it does not know.
health_decision_giveup(state) ==
    IF state = "COMPLETED" THEN "return"
    ELSE IF state = "IN_PROGRESS" THEN "sleep"
    ELSE "raise"

\* A mutant that keeps polling after FAILED.
health_decision_retry(state) ==
    IF state = "COMPLETED" THEN "return" ELSE "sleep"

\* The body of the while loop of _download_health_check, lines 171-175.
health_decision(state) ==
    IF state = "COMPLETED" THEN "return"
    ELSE IF state = "FAILED" THEN "raise"
    ELSE "sleep"

download_health_check ==
    /\ pc = "hc_poll"
    /\ \E response \in HealthResponses(zones[i]) :
         LET state == response.state
             d == health_decision(state)
             e == Exc("Exception", "Error processing health check", state)
             call == Call("GET location", location, response)
         IN  /\ d = "sleep" => polls < MaxPolls
             /\ CASE d = "return" ->
                       /\ log' = log \o <<call, Return("fetch_health_check", Dumps(response))>>
                       /\ fetched' = Dumps(response)
                       /\ pc' = "load_id"
                       /\ UNCHANGED <<results, i, polls>>
                  [] d = "raise" ->
                       /\ log' = log \o <<call, Raise("_download_health_check", e)>>
                       /\ Except(e)
                       /\ UNCHANGED <<polls, fetched>>
                  [] OTHER ->
                       /\ log' = Append(log, call)
                       /\ polls' = polls + 1
                       /\ UNCHANGED <<pc, results, i, fetched>>
    /\ UNCHANGED <<handler, zones, responded, task_id, location>>
    /\ UNCHANGED inferVars
    /\ UNCHANGED initVars

\* --------------------------------- inf_client.py / asst_client.py: inference
fetchVars == <<task_id, location, polls, fetched>>

\* The assistant name of the handler's inference method (inf_client.py:62, 96).
AssistantName(h) ==
    IF h = "analyze_zone_file" THEN "zone_analyzer" ELSE "zone_healthcheck"

\* The f-string prompts of zone_inference and zone_healthcheck.
Prompt(h, content) ==
    IF h = "analyze_zone_file"
    THEN "Analyze the following DNS zone file ... Zone file: " \o content
    ELSE "Analyze the following DNS health check JSON response ... Health check JSON: "
         \o content

\* A mutant in which an inference that failed says nothing.
InferenceExceptSilent(e) ==
    /\ Succeed
    /\ UNCHANGED responded

\* except Exception as e: say(...) of zone_inference / zone_healthcheck
\* (inf_client.py:81-82, 109-110); the method then returns normally, so the
\* handler appends the success outcome (app.py:84, 118).
InferenceExcept(e) ==
    /\ responded' = Append(responded,
                      Message("inference_error", "Error during assistant run: " \o e.msg, <<>>))
    /\ Succeed

\* What the config file holds for the key "{assistant_name}_id".
ConfigFiles == {"missing", "not_json", "json"}

StoredIds ==
    { NoId,                              \* the key is not in the file
      AsstId(TRUE, "", 0, TRUE),         \* the empty string
      AsstId(TRUE, "asst_", 24, TRUE),   \* asst_ and 24 alphanumerics
      AsstId(TRUE, "asst_", 3, TRUE),    \* asst_ and a short suffix
      AsstId(TRUE, "id_", 24, TRUE) }    \* another prefix

ConfigReads ==
    {<<"missing", NoId>>, <<"not_json", NoId>>} \cup {<<"json", v>> : v \in StoredIds}

Falsy(v) == ~v.present \/ (v.prefix = "" /\ v.len = 0)

\* _load_assistant_id, lines 56-69: the exception it raises, NoExc when it
\* returns the stored identifier.
\* A mutant that takes whatever a readable file gives for the key.
LoadOutcomeLenient(file, v) ==
    IF file = "missing"
    THEN Exc("FileNotFoundError", "Configuration file not found.", "")
    ELSE NoExc

LoadOutcome(file, v) ==
    IF file = "missing"
    THEN Exc("FileNotFoundError", "Configuration file not found.", "")
    ELSE IF file = "not_json"
    THEN Exc("ValueError", "Configuration file is not valid JSON.", "")
    ELSE IF Falsy(v) \/ v.prefix # "asst_"
    THEN Exc("RuntimeError",
             "An error occurred while loading the configuration: Invalid or missing id",
             "")
    ELSE NoExc

\* AssistantClient(name) at the head of an inference method.
load_assistant_id ==
    /\ pc = "load_id"
    /\ request' = request + 1
    /\ \E read \in ConfigReads :
         LET e == LoadOutcome(read[1], read[2])
         IN  IF Raises(e)
             THEN /\ log' = <<Raise("_load_assistant_id", e)>>
                  /\ InferenceExcept(e)
                  /\ UNCHANGED assistant_id
             ELSE /\ log' = <<Return("_load_assistant_id", read[2])>>
                  /\ assistant_id' = read[2]
                  /\ pc' = "create_thread"
                  /\ UNCHANGED <<i, results, responded>>
    /\ task_id' = None /\ location' = None /\ polls' = 0
    /\ UNCHANGED <<handler, zones, fetched, thread_id, threads, runs, raw_messages,
                   response_text>>
    /\ UNCHANGED initVars

\* A mutant that hands out the first thread again when there is one.
create_thread_pooled(thread) ==
    IF threads # <<>> THEN threads[1].id ELSE thread.id

\* _create_thread, lines 82-83: the identifier of the thread just created.
create_thread_id(thread) == thread.id

create_thread ==
    /\ pc = "create_thread"
    /\ \E ok \in BOOLEAN :
         LET thread == [id |-> Len(threads) + 1, request |-> request, messages |-> <<>>]
             e == Exc("RuntimeError", "Failed to create a thread: ", "")
         IN  IF ok
             THEN /\ threads' = Append(threads, thread)
                  /\ thread_id' = create_thread_id(thread)
                  /\ log' = Append(log, Call("threads.create", "", [id |-> thread.id]))
                  /\ pc' = "add_message"
                  /\ UNCHANGED <<i, results, responded>>
             ELSE /\ log' = log \o << Call("threads.create", "", [id |-> 0]),
                                      Raise("_create_thread", e) >>
                  /\ InferenceExcept(e)
                  /\ UNCHANGED <<threads, thread_id>>
    /\ UNCHANGED <<handler, zones, assistant_id, runs, request, raw_messages,
                   response_text>>
    /\ UNCHANGED fetchVars
    /\ UNCHANGED initVars

\* A content part of a message: its type, whether it has a text.value
\* attribute, and that value.
Part(type, hasText, value) == [type |-> type, hasText |-> hasText, value |-> value]

Msg(role, content) == [role |-> role, content |-> content]

\* A mutant that posts the input as a message of the assistant.
user_message_as_assistant(content) == Msg("assistant", <<Part("text", TRUE, content)>>)

\* messages.create(thread_id=..., role="user", content=content), lines 99-103.
user_message(content) == Msg("user", <<Part("text", TRUE, content)>>)

add_message_to_thread ==
    /\ pc = "add_message"
    /\ \E ok \in BOOLEAN :
         LET content == Prompt(handler, fetched)
             posted == user_message(content)
             e == Exc("RuntimeError", "Failed to add a message to the thread: ", "")
             call == Call("messages.create", "", [thread_id |-> thread_id, ok |-> ok])
         IN  IF ok
             THEN /\ threads' = [threads EXCEPT ![thread_id].messages = Append(@, posted)]
                  /\ log' = Append(log, call)
                  /\ pc' = "run"
                  /\ UNCHANGED <<i, results, responded>>
             ELSE /\ log' = log \o <<call, Raise("_add_message_to_thread", e)>>
                  /\ InferenceExcept(e)
                  /\ UNCHANGED threads
    /\ UNCHANGED <<handler, zones, assistant_id, thread_id, runs, request,
                   raw_messages, response_text>>
    /\ UNCHANGED fetchVars
    /\ UNCHANGED initVars

\* The statuses create_and_poll returns with, and RAISED for a call that
\* raises instead of returning.
RunStatuses == {"completed", "failed", "cancelled", "expired"}

RunOutcomes == RunStatuses \cup {"RAISED"}

\* A mutant that lists the messages whatever the status of the run.
run_decision_any(status) ==
    IF status = "RAISED" THEN "raise" ELSE "list"

\* run_assistant, lines 129-132.
run_decision(status) ==
    IF status = "RAISED" THEN "raise"
    ELSE IF status = "completed" THEN "list"
    ELSE "not_completed"

\* except Exception as e of run_assistant, lines 133-134.
RunError(e) ==
    Exc("RuntimeError", "Error during assistant run: " \o e.msg, e.detail)

create_and_poll ==
    /\ pc = "run"
    /\ \E status \in RunOutcomes :
         LET d == run_decision(status)
             call == Call("runs.create_and_poll", "",
                          [thread_id |-> thread_id, assistant_id |-> assistant_id,
                           status |-> status])
             inner == IF d = "raise"
                      THEN Exc("APIError", "create_and_poll failed", "")
                      ELSE Exc("RuntimeError", "Run not completed. Status: " \o status, status)
             e == RunError(inner)
         IN  /\ runs' = IF status = "RAISED" THEN runs
                        ELSE Append(runs, [thread_id |-> thread_id,
                                           request |-> request, status |-> status])
             /\ IF d = "list"
                THEN /\ log' = Append(log, call)
                     /\ pc' = "list"
                     /\ UNCHANGED <<i, results, responded>>
                ELSE /\ log' = log \o <<call, Raise("run_assistant", e)>>
                     /\ InferenceExcept(e)
    /\ UNCHANGED <<handler, zones, assistant_id, thread_id, threads, request,
                   raw_messages, response_text>>
    /\ UNCHANGED fetchVars
    /\ UNCHANGED initVars

RECURSIVE Reverse(_)
Reverse(s) == IF s = <<>> THEN <<>> ELSE Append(Reverse(Tail(s)), Head(s))

TextPart(v) == Part("text", TRUE, v)

ImagePart == Part("image_file", FALSE, "")

\* The assistant messages a completed run may have added to the thread.
SampleReplies ==
    { <<>>,
      << Msg("assistant", <<TextPart("Hello")>>) >>,
      << Msg("assistant", <<ImagePart>>) >>,
      << Msg("assistant", <<TextPart("")>>) >>,
      << Msg("assistant", <<TextPart("Hel"), ImagePart, TextPart("lo")>>) >>,
      << Msg("assistant", <<TextPart("b")>>), Msg("assistant", <<TextPart("a")>>) >> }

\* messages.list(thread_id=thread_id), line 130: the messages of the thread,
\* newest first, or an exception, which line 133 wraps.
list_messages ==
    /\ pc = "list"
    /\ \/ \E reply \in SampleReplies :
            LET listed == reply \o Reverse(threads[thread_id].messages)
            IN  /\ raw_messages' = listed
                /\ log' = log \o << Call("messages.list", "", [thread_id |-> thread_id, ok |-> TRUE]),
                                    Return("run_assistant", None) >>
                /\ pc' = "process"
                /\ UNCHANGED <<i, results, responded>>
       \/ LET e == RunError(Exc("APIError", "messages.list failed", ""))
          IN  /\ log' = log \o << Call("messages.list", "", [thread_id |-> thread_id, ok |-> FALSE]),
                                  Raise("run_assistant", e) >>
              /\ InferenceExcept(e)
              /\ UNCHANGED raw_messages
    /\ UNCHANGED <<handler, zones, assistant_id, thread_id, threads, runs, request,
                   response_text>>
    /\ UNCHANGED fetchVars
    /\ UNCHANGED initVars

\* A mutant that takes the text parts of every message, whoever wrote it.
part_selected_any_role(role, part) == part.type = "text" /\ part.hasText

\* The two conditions of _process_response, lines 150 and 152.
part_selected(role, part) ==
    role = "assistant" /\ part.type = "text" /\ part.hasText

\* The inner loop, lines 151-153: text extended by the parts of one message.
RECURSIVE PartsText(_, _, _)
PartsText(text, role, content) ==
    IF content = <<>> THEN text
    ELSE PartsText(IF part_selected(role, Head(content))
                   THEN text \o Head(content).value ELSE text,
                   role, Tail(content))

\* The outer loop, lines 148-153.
RECURSIVE ResponseText(_, _)
ResponseText(text, messages) ==
    IF messages = <<>> THEN text
    ELSE ResponseText(PartsText(text, Head(messages).role, Head(messages).content),
                      Tail(messages))

\* SlackStyler().convert, the markdown to mrkdwn conversion of the
\* slackstyler package (inf_client.py:156-157).
Convert(text) == "mrkdwn(" \o text \o ")"

\* _process_response, lines 148-159, and the normal return of the inference
\* method to the handler.
process_response ==
    /\ pc = "process"
    /\ LET text == ResponseText("", raw_messages)
       IN  /\ response_text' = text
           /\ responded' = Append(responded,
                             IF text # ""
                             THEN Message("styled", Convert(text), <<>>)
                             ELSE Message("empty", "The assistant's response was empty.", <<>>))
    /\ log' = Append(log, Return("_process_response", None))
    /\ Succeed
    /\ UNCHANGED <<handler, zones, assistant_id, thread_id, threads, runs, request,
                   raw_messages>>
    /\ UNCHANGED fetchVars
    /\ UNCHANGED initVars

\* respond("\n".join(results)), app.py:88 / 122, after the loop: the last
\* pipeline is over, its record and its locals are dropped.
report ==
    /\ pc = "report"
    /\ responded' = Append(responded, Message("report", "", results))
    /\ pc' = "done"
    /\ log' = <<>>
    /\ task_id' = None /\ location' = None /\ polls' = 0 /\ fetched' = None
    /\ assistant_id' = NoId /\ thread_id' = 0
    /\ raw_messages' = <<>> /\ response_text' = ""
    /\ UNCHANGED <<handler, zones, i, results, threads, runs, request>>
    /\ UNCHANGED initVars

\* The methods class UltraDNSClient defines (dns_client.py:22-175); it has
\* no __getattr__.
ClientMethods ==
    {"__init__", "fetch_zone_data", "fetch_health_check", "_validate_zone_exists",
     "_initiate_zone_export", "_poll_task_status", "_download_exported_data",
     "_initiate_health_check", "_download_health_check"}

\* The attribute lookup of a method call on the client: AttributeError for
\* a name the class does not define.
MethodLookup(name) ==
    IF name \in ClientMethods
    THEN NoExc
    ELSE Exc("AttributeError",
             "'UltraDNSClient' object has no attribute '" \o name \o "'", name)

\* except Exception as e: respond(...) of udns_system_status, lines 53-54.
StatusExcept(e) ==
    /\ responded' = Append(responded,
                      Message("status_error",
                              "Error fetching or analyzing system status: " \o e.msg, <<>>))
    /\ pc' = "done"

\* client = UltraDNSClient(...) of udns_system_status, line 47, inside the
\* try block.
status_client ==
    /\ pc = "status_client"
    /\ \E ok \in BOOLEAN :
         LET e == Exc("RuntimeError", "Authentication failed: ", "")
         IN  IF ok
             THEN /\ log' = <<Return("UltraDNSClient", None)>>
                  /\ pc' = "status_fetch"
                  /\ UNCHANGED responded
             ELSE /\ log' = <<Raise("UltraDNSClient", e)>>
                  /\ StatusExcept(e)
    /\ UNCHANGED <<handler, zones, i, results, assistant_id, thread_id, threads, runs,
                   request, raw_messages, response_text>>
    /\ UNCHANGED fetchVars
    /\ UNCHANGED initVars

\* system_status = client.fetch_system_status(), line 48: the lookup of
\* the method on the client, and, were it found, the call of it before
\* inference_client.status_check(system_status, respond), line 51.
status_fetch ==
    /\ pc = "status_fetch"
    /\ LET e == MethodLookup("fetch_system_status")
       IN  IF Raises(e)
           THEN /\ log' = Append(log, Raise("fetch_system_status", e))
                /\ StatusExcept(e)
           ELSE /\ log' = Append(log, Call("fetch_system_status", "", [ok |-> TRUE]))
                /\ pc' = "status_check"
                /\ UNCHANGED responded
    /\ UNCHANGED <<handler, zones, i, results, assistant_id, thread_id, threads, runs,
                   request, raw_messages, response_text>>
    /\ UNCHANGED fetchVars
    /\ UNCHANGED initVars

Next ==
    \/ Authenticate
    \/ status_client
    \/ status_fetch
    \/ validate_zone_exists
    \/ initiate_zone_export
    \/ poll_task_status
    \/ download_exported_data
    \/ initiate_health_check
    \/ download_health_check
    \/ load_assistant_id
    \/ create_thread
    \/ add_message_to_thread
    \/ create_and_poll
    \/ list_messages
    \/ process_response
    \/ report

Spec == Init /\ [][Next]_vars

TypeOK ==
    /\ handler \in Handlers \cup {StatusHandler}
    /\ zones \in SeqsUpTo(Names, MaxZones)
    /\ pc \in {"auth", "validate", "export", "poll", "download", "healthcheck",
               "hc_poll", "load_id", "create_thread", "add_message", "run", "list",
               "process", "report", "done", "crashed", "validate_only",
               "status_client", "status_fetch", "status_check"}
    /\ i \in 1..(Len(zones) + 1)
    /\ polls \in 0..MaxPolls

\* ------------------------------------------------------------- properties
IsCall(k, fn) == log[k].ev = "call" /\ log[k].fn = fn

IsReturn(k, fn) == log[k].ev = "return" /\ log[k].fn = fn

IsRaise(k, fn) == log[k].ev = "raise" /\ log[k].fn = fn

IsSubmission(k) == IsCall(k, "POST export") \/ IsCall(k, "POST healthchecks")

\* The pipeline of the entity whose outcome was recorded last has ended and
\* log still holds its last operation (the fetch or the inference request).
EntityEnded == results # <<>> /\ pc \in {"validate", "report", "done"}

LastOutcome == results[Len(results)]

\* C1: in a fetch whose existence validation raised, no export submission and
\* no health-check submission is issued; a submission is issued only after
\* the validation of the same fetch returned.
C1_NoSubmissionAfterFailedValidation ==
    /\ \A k \in 1..Len(log) :
         IsRaise(k, "_validate_zone_exists")
            => \A j \in 1..Len(log) : ~IsSubmission(j)
    /\ \A j \in 1..Len(log) :
         IsSubmission(j)
            => \E k \in 1..(j - 1) : IsReturn(k, "_validate_zone_exists")

C1_Witness ==
    /\ EntityEnded
    /\ \E k \in 1..Len(log) : IsRaise(k, "_validate_zone_exists")
    /\ ~LastOutcome.ok

\* C2: _poll_task_status returns only right after an observation with code
\* COMPLETE, raises right after the first observation with code ERROR, and
\* after an observation with code PENDING it neither returns nor raises: it
\* observes again.
C2_PollLoopTerminalOnly ==
    \A k \in 1..Len(log) :
        /\ IsReturn(k, "_poll_task_status")
              => k > 1 /\ IsCall(k - 1, "GET task") /\ log[k - 1].resp.code = "COMPLETE"
        /\ IsRaise(k, "_poll_task_status")
              => /\ k > 1 /\ IsCall(k - 1, "GET task") /\ log[k - 1].resp.code = "ERROR"
                 /\ \A j \in 1..(k - 2) :
                       IsCall(j, "GET task") => log[j].resp.code # "ERROR"
        /\ IsCall(k, "GET task") /\ log[k].resp.code = "ERROR"
              => k < Len(log) /\ IsRaise(k + 1, "_poll_task_status")
        /\ IsCall(k, "GET task") /\ log[k].resp.code = "PENDING"
              => IF k = Len(log) THEN pc = "poll" ELSE IsCall(k + 1, "GET task")

C2_Witness ==
    \E k \in 1..Len(log) :
        /\ k > MaxPolls
        /\ IsReturn(k, "_poll_task_status")
        /\ \A j \in (k - 1 - MaxPolls)..(k - 2) :
              IsCall(j, "GET task") /\ log[j].resp.code = "PENDING"

\* The handler has gone through the whole list (authentication succeeded).
LoopDone == pc = "report" \/ (pc = "done" /\ responded[Len(responded)].kind = "report")

\* C3: the batch handlers record one outcome per name processed so far, the
\* k-th outcome for the k-th name, and leave the loop only when every name
\* of the list has its outcome: a failure does not end the loop.
C3_OneOutcomePerNameInOrder ==
    /\ Len(results) = i - 1
    /\ Len(results) <= Len(zones)
    /\ \A k \in 1..Len(results) : results[k].zone = zones[k]
    /\ pc \in {"validate", "export", "poll", "download", "healthcheck", "hc_poll",
               "load_id", "create_thread", "add_message", "run", "list", "process"}
          => i <= Len(zones)
    /\ LoopDone => Len(results) = Len(zones)
    /\ (pc = "done" /\ LoopDone)
          => responded[Len(responded)].outcomes = results

C3_Witness ==
    /\ pc = "done"
    /\ Len(zones) = 2
    /\ zones[1] = zones[2]
    /\ Len(results) = 2
    /\ ~results[1].ok
    /\ results[2].ok

\* C4: when the fetch or the inference of an entity failed (some method of
\* its pipeline raised), the outcome recorded for the entity is an error
\* outcome; a success outcome is recorded only when nothing raised.
C4_FailureRecordedAsError ==
    (EntityEnded /\ \E k \in 1..Len(log) : log[k].ev = "raise")
        => ~LastOutcome.ok

\* What the spec says of a response to the existence lookup.
C5_Classification(response) ==
    IF response.shape = "dict" THEN "passes"
    ELSE IF /\ response.shape = "list" /\ response.len >= 1
            /\ response.firstIsDict /\ response.hasErrorMessage
    THEN "not_found"
    ELSE "protocol_error"

\* C5: the validation passes on a map, fails as not-found on a list whose
\* first element is a map with an error message, and fails on every other
\* shape; it never passes on a list.
C5_EveryShapeClassified ==
    \A k \in 1..Len(log) :
        IsCall(k, "GET zone")
           => LET c == C5_Classification(log[k].resp)
              IN  /\ k < Len(log)
                  /\ c = "passes" <=> IsReturn(k + 1, "_validate_zone_exists")
                  /\ c = "not_found"
                        => /\ IsRaise(k + 1, "_validate_zone_exists")
                           /\ log[k + 1].resp.msg = "Zone validation failed: "
                  /\ c = "protocol_error"
                        => /\ IsRaise(k + 1, "_validate_zone_exists")
                           /\ log[k + 1].resp.msg # "Zone validation failed: "

\* The inference request of the last entity listed the messages of a
\* completed run and found no text of the assistant in them.
EmptyResponse ==
    /\ EntityEnded
    /\ \E k \in 1..Len(log) : IsCall(k, "messages.list") /\ log[k].resp.ok
    /\ response_text = ""

\* C6: a completed run without any assistant text ends the inference request
\* in a failure, not in a normal return of _process_response, and the entity
\* is not recorded as a success.
C6_EmptyResponseIsFailure ==
    EmptyResponse
        => /\ \A k \in 1..Len(log) : ~IsReturn(k, "_process_response")
           /\ ~LastOutcome.ok

\* ------------------------------- _process_response over every message list
Roles == {"assistant", "user"}

Parts == {TextPart("Hello"), TextPart("b"), ImagePart}

Messages == {Msg(r, c) : r \in Roles, c \in SeqsUpTo(Parts, MaxParts)}

MessageLists == SeqsUpTo(Messages, MaxMessages)

\* The state in which run_assistant has returned the listed messages of a
\* completed run to zone_inference, for every message list within the bounds.
InitResponse ==
    /\ handler = "analyze_zone_file"
    /\ zones = <<"good.example">>
    /\ pc = "process"
    /\ i = 1
    /\ results = <<>>
    /\ responded = <<>>
    /\ log = << Call("messages.list", "", [thread_id |-> 1, ok |-> TRUE]),
                Return("run_assistant", None) >>
    /\ task_id = None
    /\ location = None
    /\ polls = 0
    /\ fetched \in ZoneFiles(zones[1])
    /\ assistant_id = AsstId(TRUE, "asst_", 24, TRUE)
    /\ thread_id = 1
    /\ threads = << [id |-> 1, request |-> 1,
                     messages |-> << Msg("user", <<TextPart(Prompt(handler, fetched))>>) >>] >>
    /\ runs = << [thread_id |-> 1, request |-> 1, status |-> "completed"] >>
    /\ request = 1
    /\ raw_messages \in MessageLists
    /\ response_text = ""
    /\ IdleInit

NextResponse ==
    \/ process_response
    \/ report

SpecResponse == InitResponse /\ [][NextResponse]_vars

\* The positions <<message, part>> of a message list.
Positions(messages) ==
    UNION { {<<m, p>> : p \in 1..Len(messages[m].content)} : m \in 1..Len(messages) }

Before(a, b) == a[1] < b[1] \/ (a[1] = b[1] /\ a[2] < b[2])

\* The values at the positions S, concatenated in list order.
RECURSIVE ConcatAt(_, _)
ConcatAt(S, messages) ==
    IF S = {} THEN ""
    ELSE LET q == CHOOSE q \in S : \A r \in S : r = q \/ Before(q, r)
         IN  messages[q[1]].content[q[2]].value \o ConcatAt(S \ {q}, messages)

\* The text parts of the messages of the assistant, concatenated in list order.
AssistantText(messages) ==
    ConcatAt({q \in Positions(messages) :
                 /\ messages[q[1]].role = "assistant"
                 /\ messages[q[1]].content[q[2]].type = "text"}, messages)

Processed == log # <<>> /\ IsReturn(Len(log), "_process_response")

\* C7: the response text is the concatenation, in list order, of the values
\* of exactly the text parts of the assistant's messages; a single assistant
\* message with the one text part "Hello" gives "Hello"; a non-empty text is
\* what is passed on, styled, to say.
C7_ResponseTextIsAssistantText ==
    Processed
       => /\ response_text = AssistantText(raw_messages)
          /\ raw_messages = << Msg("assistant", <<TextPart("Hello")>>) >>
                => response_text = "Hello"
          /\ response_text # ""
                => \E k \in 1..Len(responded) :
                      responded[k] = Message("styled", Convert(AssistantText(raw_messages)), <<>>)

C7_Witness ==
    /\ Processed
    /\ raw_messages = << Msg("user", <<TextPart("b")>>),
                         Msg("assistant", <<TextPart("Hello"), ImagePart>>) >>
    /\ response_text = "Hello"

\* C8: a run that ends with a status other than completed makes
\* run_assistant raise an error carrying that status, and the messages are
\* not listed; the messages are listed only after a completed run.
C8_NotCompletedRaisesWithoutListing ==
    \A k \in 1..Len(log) :
        /\ (IsCall(k, "runs.create_and_poll")
              /\ log[k].resp.status \in RunStatuses \ {"completed"})
              => /\ k < Len(log)
                 /\ IsRaise(k + 1, "run_assistant")
                 /\ log[k + 1].resp.detail = log[k].resp.status
                 /\ \A j \in 1..Len(log) : ~IsCall(j, "messages.list")
        /\ IsCall(k, "messages.list")
              => /\ k > 1
                 /\ IsCall(k - 1, "runs.create_and_poll")
                 /\ log[k - 1].resp.status = "completed"

C8_Witness ==
    /\ EntityEnded
    /\ \E k \in 1..Len(log) :
          IsCall(k, "runs.create_and_poll") /\ log[k].resp.status = "expired"

\* C9: no thread is used by two inference requests: every run is on the
\* thread created in its own request, the thread in use is the one created
\* in the current request, and two runs never share a thread.
C9_FreshThreadPerRequest ==
    /\ \A a, b \in 1..Len(runs) :
          runs[a].thread_id = runs[b].thread_id => runs[a].request = runs[b].request
    /\ \A a \in 1..Len(runs) :
          /\ runs[a].thread_id \in 1..Len(threads)
          /\ threads[runs[a].thread_id].request = runs[a].request
    /\ \A a, b \in 1..Len(threads) :
          a # b => threads[a].id # threads[b].id /\ threads[a].request # threads[b].request
    /\ (thread_id # 0 /\ pc \in {"add_message", "run", "list", "process"})
          => threads[thread_id].request = request

C9_Witness ==
    /\ Len(runs) = 2
    /\ runs[1].thread_id # runs[2].thread_id
    /\ runs[1].request # runs[2].request

\* C10: after an observation with state IN_PROGRESS the health-check poll
\* goes on (it observes again), and right after the first observation with
\* state FAILED it raises: no call follows a FAILED observation.
C10_HealthPollInProgressAndFailed ==
    \A k \in 1..Len(log) :
        /\ (IsCall(k, "GET location") /\ log[k].resp.state = "IN_PROGRESS")
              => IF k = Len(log) THEN pc = "hc_poll" ELSE IsCall(k + 1, "GET location")
        /\ (IsCall(k, "GET location") /\ log[k].resp.state = "FAILED")
              => /\ k + 1 = Len(log)
                 /\ IsRaise(k + 1, "_download_health_check")
                 /\ \A j \in 1..(k - 1) :
                       IsCall(j, "GET location") => log[j].resp.state # "FAILED"

C10_Witness ==
    \E k \in 2..Len(log) :
        /\ IsCall(k - 1, "GET location") /\ log[k - 1].resp.state = "IN_PROGRESS"
        /\ IsCall(k, "GET location") /\ log[k].resp.state = "FAILED"
        /\ EntityEnded
        /\ ~LastOutcome.ok

(***************************************************************************)
(* A third specification: the fetch of one name, from the validation to    *)
(* the return or the exception of fetch_zone_data / fetch_health_check.    *)
(* The handler thread runs on, so its next step is taken (weak fairness).  *)
(***************************************************************************)

\* The state of a handler after the client was built, at the first name.
InitFetch ==
    /\ handler \in Handlers
    /\ zones \in {<<n>> : n \in Names}
    /\ pc = "validate"
    /\ i = 1
    /\ results = <<>>
    /\ responded = <<>>
    /\ log = <<>>
    /\ task_id = None
    /\ location = None
    /\ polls = 0
    /\ fetched = None
    /\ assistant_id = NoId
    /\ thread_id = 0
    /\ threads = <<>>
    /\ runs = <<>>
    /\ request = 0
    /\ raw_messages = <<>>
    /\ response_text = ""
    /\ IdleInit

NextFetch ==
    \/ validate_zone_exists
    \/ initiate_zone_export
    \/ poll_task_status
    \/ download_exported_data
    \/ initiate_health_check
    \/ download_health_check

SpecFetch == InitFetch /\ [][NextFetch]_vars /\ WF_vars(NextFetch)

\* The positions of the log that hold a call of fn.
CallsOf(fn) == {k \in 1..Len(log) : IsCall(k, fn)}

(***************************************************************************)
(* C11: a COMPLETED observation of a health check is the last remote call  *)
(* of fetch_health_check, which returns the JSON text of exactly that      *)
(* response; every poll GETs the location the submission returned.         *)
(***************************************************************************)

\* The JSON text of a health-check response, written out.
C11_Json(r) ==
    "{\"state\": \"" \o r.state \o "\", \"body\": \"" \o r.body \o "\"}"

C11_CompletedIsReturnedAsObserved ==
    /\ \A k \in CallsOf("GET location") :
         /\ \E j \in CallsOf("POST healthchecks") :
              /\ j < k
              /\ log[k].arg = log[j].resp.location
         /\ log[k].resp.state = "COMPLETED" =>
              /\ Len(log) = k + 1
              /\ IsReturn(k + 1, "fetch_health_check")
              /\ log[k + 1].resp = C11_Json(log[k].resp)
              /\ fetched = C11_Json(log[k].resp)
              /\ pc = "load_id"
    /\ Cardinality(CallsOf("POST healthchecks")) <= 1
    /\ \A k \in 1..Len(log) :
         IsReturn(k, "fetch_health_check") =>
            /\ k > 1
            /\ IsCall(k - 1, "GET location")
            /\ log[k - 1].resp.state = "COMPLETED"

C11_Witness ==
    /\ pc = "load_id"
    /\ \E j, k \in CallsOf("GET location") :
         /\ j < k
         /\ log[j].resp.state = "IN_PROGRESS"
         /\ log[k].resp.state = "COMPLETED"
         /\ log[k].arg = "/v1/zones/healthchecks/2"
         /\ fetched = C11_Json(log[k].resp)

(***************************************************************************)
(* C12: the task identifier of an export is the task_id field of the       *)
(* submission response, whatever the other fields hold, and every poll and *)
(* the download of that fetch use this identifier.                         *)
(***************************************************************************)
C12_TaskIdFromSubmissionEverywhere ==
    /\ Cardinality(CallsOf("POST export")) <= 1
    /\ \A j \in CallsOf("POST export") :
         /\ Len(log) > j
         /\ IsReturn(j + 1, "_initiate_zone_export")
         /\ log[j + 1].resp = log[j].resp.task_id
         /\ pc \in {"poll", "download"} => task_id = log[j].resp.task_id
         /\ \A k \in CallsOf("GET task") :
              k > j /\ log[k].arg = "/tasks/" \o log[j].resp.task_id
         /\ \A k \in CallsOf("GET result") :
              k > j /\ log[k].arg = "/tasks/" \o log[j].resp.task_id \o "/result"
    /\ \A k \in CallsOf("GET task") \cup CallsOf("GET result") :
         \E j \in CallsOf("POST export") : j < k

C12_Witness ==
    /\ pc = "load_id"
    /\ \E j \in CallsOf("POST export") :
         /\ log[j].resp.task_id = "task-2"
         /\ log[j].resp.other_id = "task-1"
    /\ Cardinality(CallsOf("GET task")) >= 2
    /\ CallsOf("GET result") # {}


\* The positions of the handler inside an inference.
InferencePcs == {"create_thread", "add_message", "run", "list", "process"}

\* The payloads a fetch of the handler can return for a zone.
Payloads(h, zone) ==
    IF h = "analyze_zone_file"
    THEN ZoneFiles(zone)
    ELSE {C11_Json([state |-> "COMPLETED", body |-> b]) : b \in HealthBodies(zone)}

FetchFn(h) == IF h = "analyze_zone_file" THEN "fetch_zone_data" ELSE "fetch_health_check"

(***************************************************************************)
(* C13: the inference of an entity starts only when the fetch of that      *)
(* entity has returned a payload, it is given that payload, and there are  *)
(* as many inferences as fetches that returned: none for a failed fetch.   *)
(***************************************************************************)
C13_InferenceAfterFetchWithItsPayload ==
    /\ pc = "load_id" =>
         /\ log # <<>>
         /\ \A k \in 1..Len(log) : log[k].ev # "raise"
         /\ IsReturn(Len(log), FetchFn(handler))
         /\ log[Len(log)].resp = fetched
         /\ i <= Len(zones)
         /\ IsCall(1, "GET zone")
         /\ log[1].arg = "/v3/zones/" \o zones[i]
    /\ pc \in InferencePcs \cup {"load_id"} =>
         /\ i <= Len(zones)
         /\ fetched \in Payloads(handler, zones[i])
    /\ pc \in {"run", "list", "process"} =>
         /\ Len(threads[thread_id].messages) = 1
         /\ threads[thread_id].messages[1].content[1].value = Prompt(handler, fetched)
    /\ request = Cardinality({k \in 1..Len(results) : results[k].ok})
                    + (IF pc \in InferencePcs THEN 1 ELSE 0)

C13_Witness ==
    /\ pc = "run"
    /\ i = 2
    /\ ~results[1].ok
    /\ request = 1
    /\ zones[1] # zones[2]
    /\ fetched \in Payloads(handler, zones[2])
    /\ fetched \notin Payloads(handler, zones[1])


\* The positions of responded that hold the aggregate report.
Reports == {k \in 1..Len(responded) : responded[k].kind = "report"}

AuthFailed == responded # <<>> /\ responded[1].kind = "auth_failed"

(***************************************************************************)
(* C14: no exception of a fetch or of an inference ends a batch handler;   *)
(* while it is running it has a next step, and when it has ended after a   *)
(* successful authentication it has emitted the aggregate report once, as  *)
(* its last message, with the outcome of every name of the list.           *)
(***************************************************************************)
C14_HandlerEndsWithOneReport ==
    /\ pc # "crashed"
    /\ pc # "done" => ENABLED Next
    /\ Cardinality(Reports) <= 1
    /\ \A k \in Reports :
         /\ k = Len(responded)
         /\ pc = "done"
         /\ responded[k].outcomes = results
         /\ Len(results) = Len(zones)
    /\ handler \in Handlers /\ pc = "done" /\ ~AuthFailed => Reports # {}

C14_Witness ==
    /\ pc = "done"
    /\ Len(zones) = 2
    /\ Len(results) = 2
    /\ ~results[1].ok
    /\ results[2].ok
    /\ \E k \in 1..Len(responded) : responded[k].kind = "inference_error"
    /\ Reports = {Len(responded)}


\* The fetch is inside one of the two polling loops.
Polling == pc \in {"poll", "hc_poll"}

\* The observation at position k of the log reports a terminal state.
TerminalObservation(k) ==
    \/ IsCall(k, "GET task") /\ log[k].resp.code \in {"COMPLETE", "ERROR"}
    \/ IsCall(k, "GET location") /\ log[k].resp.state \in {"COMPLETED", "FAILED"}

\* The event at position k of the log ends a polling loop.
EndsPolling(k) ==
    \/ IsReturn(k, "_poll_task_status") \/ IsRaise(k, "_poll_task_status")
    \/ IsReturn(k, "fetch_health_check") \/ IsRaise(k, "_download_health_check")

\* While a fetch polls, every observation so far was non-terminal, however
\* many there were, and nothing has ended the loop; a loop ends right after
\* a terminal observation and a terminal observation ends the loop.
C15_NoGiveUp ==
    /\ Polling =>
         /\ \A k \in 1..Len(log) : ~TerminalObservation(k) /\ ~EndsPolling(k)
         /\ Cardinality(CallsOf("GET task") \cup CallsOf("GET location")) = polls
    /\ \A k \in 1..Len(log) :
         /\ EndsPolling(k) => k > 1 /\ TerminalObservation(k - 1)
         /\ TerminalObservation(k) => k < Len(log) /\ EndsPolling(k + 1)

(***************************************************************************)
(* C15: a polling loop ends exactly on a terminal observation: no number   *)
(* of non-terminal observations makes the fetch return or raise, and when  *)
(* the remote side comes to report a terminal state (here at the latest    *)
(* after MaxPolls non-terminal ones) the fetch returns or raises.          *)
(***************************************************************************)
C15_PollingEndsExactlyOnTerminal ==
    /\ []C15_NoGiveUp
    /\ Polling ~> ~Polling

C15_Witness ==
    /\ Polling
    /\ polls = MaxPolls
    /\ Cardinality(CallsOf("GET task") \cup CallsOf("GET location")) = MaxPolls


\* The observation at position k of the log reports the terminal error state.
ErrorObservation(k) ==
    \/ IsCall(k, "GET task") /\ log[k].resp.code = "ERROR"
    \/ IsCall(k, "GET location") /\ log[k].resp.state = "FAILED"

(***************************************************************************)
(* C16: an observation of ERROR (export) or FAILED (health check) is the   *)
(* last remote call for its entity: the fetch raises at once, there was    *)
(* one submission, the error outcome of the entity is recorded and the     *)
(* loop has moved on to the next name.                                     *)
(***************************************************************************)
C16_TerminalErrorNeverRetried ==
    \A k \in 1..Len(log) :
        ErrorObservation(k) =>
            /\ Len(log) = k + 1
            /\ log[k + 1].ev = "raise"
            /\ Cardinality({j \in 1..Len(log) : IsSubmission(j)}) = 1
            /\ Cardinality({j \in 1..Len(log) : IsCall(j, "GET zone")}) = 1
            /\ pc \in {"validate", "report"}
            /\ Len(results) = i - 1
            /\ i >= 2
            /\ ~results[i - 1].ok
            /\ results[i - 1].zone = zones[i - 1]
            /\ log[1].arg = "/v3/zones/" \o zones[i - 1]

C16_Witness ==
    /\ pc = "validate"
    /\ i = 2
    /\ Len(log) >= 2
    /\ IsCall(Len(log) - 1, "GET task")
    /\ log[Len(log) - 1].resp.code = "ERROR"
    /\ \E k \in CallsOf("GET task") : log[k].resp.code = "PENDING"
    /\ ~results[1].ok


(***************************************************************************)
(* C17: GET /tasks/{id}/result is issued at most once in a fetch, right    *)
(* after the poll loop returned on a COMPLETE observation, and never       *)
(* otherwise; fetch_zone_data returns, right after it, the payload of that *)
(* response as it came, and returns in no other way.                       *)
(***************************************************************************)
C17_DownloadOnceAfterComplete ==
    /\ Cardinality(CallsOf("GET result")) <= 1
    /\ \A k \in CallsOf("GET result") :
         /\ k >= 3
         /\ IsReturn(k - 1, "_poll_task_status")
         /\ IsCall(k - 2, "GET task")
         /\ log[k - 2].resp.code = "COMPLETE"
         /\ Len(log) = k + 1
         /\ IsReturn(k + 1, "fetch_zone_data")
         /\ log[k + 1].resp = log[k].resp.body
         /\ fetched = log[k].resp.body
    /\ \A k \in 1..Len(log) :
         IsReturn(k, "fetch_zone_data") => k > 1 /\ IsCall(k - 1, "GET result")
    /\ handler = "analyze_zone_file" /\ pc = "load_id" => CallsOf("GET result") # {}

C17_Witness ==
    /\ pc = "load_id"
    /\ fetched = "$ORIGIN bad.example."
    /\ CallsOf("GET result") # {}
    /\ \E k \in CallsOf("GET task") : log[k].resp.code = "RUNNING"
    /\ IsReturn(Len(log), "fetch_zone_data")


\* The positions of the handler inside the pipeline of a name, after the
\* first remote call of the pipeline.
ActivePcs == {"export", "poll", "download", "healthcheck", "hc_poll", "load_id"}
                \cup InferencePcs

(***************************************************************************)
(* C18: the names are processed one after the other: the remote calls of   *)
(* a fetch are all for one name, the one whose pipeline is active or has   *)
(* just ended, and the pipeline of the i-th name starts and runs with the  *)
(* outcomes of all i-1 names before it recorded.                           *)
(***************************************************************************)
C18_OneEntityAtATime ==
    /\ pc \in ActivePcs \cup {"validate"} =>
         /\ Len(results) = i - 1
         /\ i <= Len(zones)
    /\ Cardinality(CallsOf("GET zone")) <= 1
    /\ \A k \in CallsOf("GET zone") :
         LET e == IF pc \in ActivePcs THEN i ELSE i - 1
         IN  /\ k = 1
             /\ e \in 1..Len(zones)
             /\ Len(results) \in {e - 1, e}
             /\ log[k].arg = "/v3/zones/" \o zones[e]
             /\ \A j \in CallsOf("POST healthchecks") :
                  log[j].arg = "/v1/zones/" \o zones[e] \o "/healthchecks"

C18_Witness ==
    /\ pc = "hc_poll"
    /\ i = 2
    /\ Len(results) = 1
    /\ zones[1] # zones[2]
    /\ log[1].arg = "/v3/zones/" \o zones[2]
    /\ CallsOf("POST healthchecks") # {}


\* Nothing has been done for any name yet.
NothingProcessed ==
    /\ log = <<>>
    /\ results = <<>>
    /\ i = 1
    /\ request = 0
    /\ threads = <<>>
    /\ runs = <<>>

(***************************************************************************)
(* C19: the client is built, and authenticates, as the first step of the   *)
(* handler and at no later point: before it nothing is processed and       *)
(* nothing is emitted.  When it fails the handler has ended, nothing was   *)
(* processed for any name, and the authentication failure is the only      *)
(* message.                                                                *)
(***************************************************************************)
C19_AuthenticateOnceFirst ==
    /\ pc = "auth" => NothingProcessed /\ responded = <<>>
    /\ \A k \in 1..Len(responded) : responded[k].kind = "auth_failed" => k = 1
    /\ AuthFailed =>
         /\ pc = "done"
         /\ Len(responded) = 1
         /\ NothingProcessed
    /\ ~NothingProcessed => pc # "auth" /\ ~AuthFailed

C19_Witness ==
    /\ pc = "done"
    /\ AuthFailed
    /\ Len(zones) = 2
    /\ NothingProcessed


\* The log is that of an inference request.
InferenceLog == log # <<>> /\ log[1].fn = "_load_assistant_id"

IsCallEvent(x) == x.ev = "call"

\* The remote calls of the log, in the order they were issued.
ProtocolCalls == SelectSeq(log, IsCallEvent)

ProtocolOrder == <<"threads.create", "messages.create", "runs.create_and_poll",
                   "messages.list">>

\* The call did not do what the protocol step is for.
StepFailed(c) ==
    \/ c.fn = "threads.create" /\ c.resp.id = 0
    \/ c.fn = "messages.create" /\ ~c.resp.ok
    \/ c.fn = "runs.create_and_poll" /\ c.resp.status # "completed"
    \/ c.fn = "messages.list" /\ ~c.resp.ok

(***************************************************************************)
(* C20: the calls of one request are a prefix of: create the thread, post  *)
(* one message to it, run on it, list its messages; all on the thread the  *)
(* first call created.  The message posted is the one message of the       *)
(* thread, written by the user and holding the input.  A step that fails   *)
(* is the last call of the request and the request ends with an exception. *)
(***************************************************************************)
C20_ProtocolOrder ==
    InferenceLog =>
        LET calls == ProtocolCalls
        IN  /\ Len(calls) <= 4
            /\ \A k \in 1..Len(calls) : calls[k].fn = ProtocolOrder[k]
            /\ \A k \in 2..Len(calls) :
                 /\ calls[1].resp.id # 0
                 /\ calls[k].resp.thread_id = calls[1].resp.id
            /\ \A k \in 1..Len(log) : log[k].ev = "raise" => k = Len(log)
            /\ \A k \in 1..Len(calls) :
                 StepFailed(calls[k]) => k = Len(calls) /\ log[Len(log)].ev = "raise"
            /\ Len(calls) >= 1 /\ calls[1].resp.id # 0 =>
                 LET posted == threads[calls[1].resp.id].messages
                 IN  IF Len(calls) >= 2 /\ calls[2].resp.ok
                     THEN /\ Len(posted) = 1
                          /\ posted[1].role = "user"
                          /\ posted[1].content = <<Part("text", TRUE, Prompt(handler, fetched))>>
                     ELSE posted = <<>>

C20_Witness ==
    /\ InferenceLog
    /\ pc = "process"
    /\ Len(ProtocolCalls) = 4
    /\ ProtocolCalls[4].resp.ok
    /\ ProtocolCalls[4].resp.thread_id = 2
    /\ Len(threads[2].messages) = 1


\* What the config file gives for the key does not name an assistant: the
\* file is missing, the key is missing, or the value is empty.
Unresolved(file, v) ==
    \/ file = "missing"
    \/ ~v.present
    \/ (v.prefix = "" /\ v.len = 0)

(***************************************************************************)
(* C21: an identifier that cannot be resolved makes the construction of    *)
(* the AssistantClient raise, and a request whose construction raised has  *)
(* issued no protocol call: it has no thread, no message and no run.  A    *)
(* request that has a thread was built with a resolved identifier.         *)
(***************************************************************************)
C21_UnresolvedIdentityRaisesFirst ==
    /\ \A read \in ConfigReads :
         Unresolved(read[1], read[2]) => Raises(LoadOutcome(read[1], read[2]))
    /\ InferenceLog =>
         IF IsRaise(1, "_load_assistant_id")
         THEN /\ Len(log) = 1
              /\ \A k \in 1..Len(threads) : threads[k].request # request
              /\ \A k \in 1..Len(runs) : runs[k].request # request
         ELSE /\ IsReturn(1, "_load_assistant_id")
              /\ ~Unresolved("json", log[1].resp)

C21_Witness ==
    /\ InferenceLog
    /\ IsRaise(1, "_load_assistant_id")
    /\ log[1].resp.type = "RuntimeError"
    /\ request = 2
    /\ Len(threads) = 1
    /\ Len(runs) = 1

(***************************************************************************)
(* C22: a run is started only with an identifier of the format asst_ and   *)
(* 24 alphanumeric characters.                                             *)
(***************************************************************************)
C22_RunOnlyWithWellFormedId ==
    \A k \in CallsOf("runs.create_and_poll") :
        /\ log[k].resp.assistant_id.prefix = "asst_"
        /\ log[k].resp.assistant_id.len = 24
        /\ log[k].resp.assistant_id.alnum


\* The observation at position k of the log reports a status outside the
\* two terminal values of its loop.
OtherObservation(k) ==
    \/ IsCall(k, "GET task") /\ log[k].resp.code \notin {"COMPLETE", "ERROR"}
    \/ IsCall(k, "GET location") /\ log[k].resp.state \notin {"COMPLETED", "FAILED"}

(***************************************************************************)
(* C24: every status outside the two terminal values is handled as the     *)
(* non-terminal one (PENDING, IN_PROGRESS) is: the loop sleeps, and the    *)
(* next event of the fetch is another observation of the same kind.        *)
(***************************************************************************)
C24_UnknownStatusIsNonTerminal ==
    /\ \A code \in ExportCodes \ {"COMPLETE", "ERROR"} :
         poll_decision(code) = "sleep" /\ poll_decision(code) = poll_decision("PENDING")
    /\ \A state \in HealthStates \ {"COMPLETED", "FAILED"} :
         health_decision(state) = "sleep"
            /\ health_decision(state) = health_decision("IN_PROGRESS")
    /\ \A k \in 1..Len(log) :
         OtherObservation(k) =>
            IF k = Len(log)
            THEN Polling
            ELSE log[k + 1].ev = "call" /\ log[k + 1].fn = log[k].fn

C24_Witness ==
    /\ pc = "load_id"
    /\ \E j, k \in CallsOf("GET location") :
         /\ k = j + 1
         /\ log[j].resp.state = "QUEUED"
         /\ log[k].resp.state = "COMPLETED"


\* The positions of responded that hold a message of an inference.
InferenceMessages ==
    {k \in 1..Len(responded) :
        responded[k].kind \in {"styled", "empty", "inference_error"}}

(***************************************************************************)
(* C25: at every moment the handler has emitted one inference message for  *)
(* each name whose fetch returned and whose pipeline has ended, and none   *)
(* for a name whose fetch failed, so the messages come in the order of the *)
(* names; the message of a name is the latest one when its pipeline ends;  *)
(* the aggregate report comes after all of them and is the last message.   *)
(***************************************************************************)
C25_InferenceMessagesBeforeReport ==
    /\ Cardinality(InferenceMessages)
          = Cardinality({k \in 1..Len(results) : results[k].ok})
    /\ \A r \in Reports :
         /\ r = Len(responded)
         /\ InferenceMessages = 1..(r - 1)
    /\ (pc \in {"validate", "report"} /\ results # <<>> /\ LastOutcome.ok)
          => Len(responded) \in InferenceMessages
    /\ handler \in Handlers /\ ~AuthFailed
          => InferenceMessages \cup Reports = 1..Len(responded)

C25_Witness ==
    /\ pc = "done"
    /\ Len(results) = 2
    /\ results[1].ok
    /\ ~results[2].ok
    /\ Len(responded) = 2
    /\ responded[1].kind = "empty"
    /\ responded[2].kind = "report"


(***************************************************************************)
(* A fourth specification: _validate_zone_exists called on its own, up to  *)
(* MaxValidations times in succession, on one name.                        *)
(***************************************************************************)

InitValidate ==
    /\ handler \in Handlers
    /\ zones \in {<<n>> : n \in Names}
    /\ pc = "validate_only"
    /\ i = 1
    /\ results = <<>>
    /\ responded = <<>>
    /\ log = <<>>
    /\ task_id = None
    /\ location = None
    /\ polls = 0
    /\ fetched = None
    /\ assistant_id = NoId
    /\ thread_id = 0
    /\ threads = <<>>
    /\ runs = <<>>
    /\ request = 0
    /\ raw_messages = <<>>
    /\ response_text = ""
    /\ IdleInit

\* One call of _validate_zone_exists (dns_client.py:74-91): the GET and
\* the tests of its response; it assigns nothing.
validate_only ==
    /\ pc = "validate_only"
    /\ Len(log) < 2 * MaxValidations
    /\ \E response \in ZoneResponses :
         LET e == ValidateOutcome(response)
         IN  log' = log \o << Call("GET zone", "/v3/zones/" \o zones[i], response),
                              IF Raises(e) THEN Raise("_validate_zone_exists", e)
                                           ELSE Return("_validate_zone_exists", None) >>
    /\ UNCHANGED <<handler, zones, pc, i, results, responded, task_id, location,
                   polls, fetched, assistant_id, thread_id, threads, runs, request,
                   raw_messages, response_text>>
    /\ UNCHANGED initVars

NextValidate == validate_only

SpecValidate == InitValidate /\ [][NextValidate]_vars

\* The response of GET /v3/zones/{name} for a zone that exists: the zone
\* object.
ExistingZone(response) == response.shape = "dict" /\ ~response.hasErrorMessage

(***************************************************************************)
(* C23: two validations in succession of a zone that exists both return;   *)
(* the only remote calls of validations are GETs of the zone, and no state *)
(* of the client or of the remote side differs from what it was before.    *)
(***************************************************************************)
C23_ValidationIdempotentReadOnly ==
    /\ \A j \in CallsOf("GET zone") :
         /\ log[j].arg = "/v3/zones/" \o zones[1]
         /\ ExistingZone(log[j].resp) => IsReturn(j + 1, "_validate_zone_exists")
         /\ (j + 2 \in CallsOf("GET zone")
               /\ ExistingZone(log[j].resp) /\ ExistingZone(log[j + 2].resp))
               => /\ IsReturn(j + 1, "_validate_zone_exists")
                  /\ IsReturn(j + 3, "_validate_zone_exists")
    /\ \A k \in 1..Len(log) : log[k].ev = "call" => log[k].fn = "GET zone"
    /\ task_id = None /\ location = None /\ polls = 0 /\ fetched = None
    /\ threads = <<>> /\ runs = <<>> /\ request = 0
    /\ results = <<>> /\ responded = <<>>

C23_Witness ==
    /\ Len(log) = 4
    /\ ExistingZone(log[1].resp)
    /\ ExistingZone(log[3].resp)
    /\ IsReturn(2, "_validate_zone_exists")
    /\ IsReturn(4, "_validate_zone_exists")


(***************************************************************************)
(* C26: when /udns-system-status has built its client (authentication      *)
(* succeeded, no remote call failed) and has ended, the system status was  *)
(* fetched and the status analysis was started with it, and no error       *)
(* message was emitted.                                                    *)
(***************************************************************************)
C26_StatusAnalysedWhenHealthy ==
    (handler = StatusHandler /\ pc = "done" /\ IsReturn(1, "UltraDNSClient"))
        => /\ \E k \in 1..Len(log) : IsCall(k, "fetch_system_status")
           /\ request >= 1
           /\ \A k \in 1..Len(responded) : responded[k].kind # "status_error"


(***************************************************************************)
(* A fifth specification: initialize.py, run up to MaxRuns times, one run  *)
(* after the other, on every config.json within the values below.          *)
(***************************************************************************)

\* The variables of the command handlers.
handlerVars == <<handler, zones, pc, i, results, responded, log, task_id, location,
                 polls, fetched, assistant_id, thread_id, threads, runs, request,
                 raw_messages, response_text>>

\* The keys of config.json, in the order load_existing_ids tests them
\* (lines 159-162) and main creates their assistants (lines 213-232).
Keys == <<"zone_analyzer_id", "dns_helper_id", "zone_healthcheck_id", "system_status_id">>

\* A JSON null: a value that is not a string.
JsonNull == [present |-> TRUE, prefix |-> "null", len |-> 0, alnum |-> FALSE]

IsString(v) == v # JsonNull

WellFormedId == AsstId(TRUE, "asst_", 24, TRUE)

\* What the file may hold for a key: a well-formed identifier, asst_ and a
\* short suffix, nothing (the key is missing), null.
StoreValues == {WellFormedId, AsstId(TRUE, "asst_", 3, TRUE), NoId, JsonNull}

Stores ==
    {Store("missing", <<>>), Store("not_json", <<>>), Store("list", <<>>)}
        \cup {Store("object", v) : v \in [1..Len(Keys) -> StoreValues]}

\* re.match(assistant_id_pattern, v) for a string v, lines 145, 159, 194;
\* the string of a missing key is the default "".
PatternMatch(v) == v.present /\ v.prefix = "asst_" /\ v.len = 24 /\ v.alnum

\* load_existing_ids, lines 154-168: "exit" for exit(0), "proceed" for
\* return None, or the exception that leaves it.  The and chain stops at
\* the first key that does not match; re.match raises TypeError for a value
\* that is not a string, a list has no get; the except clause catches
\* JSONDecodeError and KeyError only.
LoadExisting(st) ==
    IF st.file \in {"missing", "not_json"} THEN "proceed"
    ELSE IF st.file = "list" THEN "AttributeError"
    ELSE LET bad == {k \in 1..Len(Keys) :
                        ~IsString(st.values[k]) \/ ~PatternMatch(st.values[k])}
         IN  IF bad = {} THEN "exit"
             ELSE LET first == CHOOSE k \in bad : \A j \in bad : k <= j
                  IN  IF IsString(st.values[first]) THEN "proceed" ELSE "TypeError"

\* The record of a run of the script: the store before and after it, how it
\* ended, and the number of assistants it created on the remote side.
Run(before) ==
    [before |-> before, after |-> before, outcome |-> "running", creates |-> 0]

Ended(outcome, after) ==
    /\ ipc' = "ended"
    /\ hist' = [hist EXCEPT ![Len(hist)].outcome = outcome, ![Len(hist)].after = after]

InitScript ==
    /\ handler = "initialize"
    /\ zones = <<>>
    /\ pc = "idle"
    /\ i = 1
    /\ results = <<>>
    /\ responded = <<>>
    /\ log = <<>>
    /\ task_id = None
    /\ location = None
    /\ polls = 0
    /\ fetched = None
    /\ assistant_id = NoId
    /\ thread_id = 0
    /\ threads = <<>>
    /\ runs = <<>>
    /\ request = 0
    /\ raw_messages = <<>>
    /\ response_text = ""
    /\ store \in Stores
    /\ ipc = "load"
    /\ ids = <<>>
    /\ hist = <<Run(store)>>

\* load_existing_ids() of main, line 210.
load_existing_ids ==
    /\ ipc = "load"
    /\ LET o == LoadExisting(store)
       IN  IF o = "proceed"
           THEN ipc' = "create" /\ UNCHANGED hist
           ELSE IF o = "exit"
           THEN Ended("exited", store)
           ELSE Ended("load_raised", store)
    /\ UNCHANGED <<store, ids>>
    /\ UNCHANGED handlerVars

\* What assistants.create does: it raises, or it creates the assistant and
\* answers with an identifier.
CreateResponses ==
    {[raised |-> TRUE, id |-> NoId]}
        \cup {[raised |-> FALSE, id |-> v] :
                 v \in {WellFormedId, AsstId(TRUE, "asst_", 3, TRUE), AsstId(TRUE, "", 0, TRUE)}}

\* One call of create_assistant (lines 170-198) by main (lines 213-232);
\* its RuntimeError leaves main.
create_assistant ==
    /\ ipc = "create"
    /\ \E r \in CreateResponses :
         IF r.raised
         THEN /\ Ended("create_failed", store)
              /\ UNCHANGED ids
         ELSE IF PatternMatch(r.id)
         THEN /\ ids' = Append(ids, r.id)
              /\ ipc' = IF Len(ids) + 1 = Len(Keys) THEN "save" ELSE "create"
              /\ hist' = [hist EXCEPT ![Len(hist)].creates = @ + 1]
         ELSE /\ ipc' = "ended"
              /\ hist' = [hist EXCEPT ![Len(hist)].creates = @ + 1,
                                      ![Len(hist)].outcome = "create_failed"]
              /\ UNCHANGED ids
    /\ UNCHANGED store
    /\ UNCHANGED handlerVars

\* json.dump(config, f) of main, lines 235-243.
save_config ==
    /\ ipc = "save"
    /\ store' = Store("object", ids)
    /\ Ended("saved", store')
    /\ UNCHANGED ids
    /\ UNCHANGED handlerVars

\* The script is started again (lines 247-248).
run_again ==
    /\ ipc = "ended"
    /\ Len(hist) < MaxRuns
    /\ ipc' = "load"
    /\ ids' = <<>>
    /\ hist' = Append(hist, Run(store))
    /\ UNCHANGED store
    /\ UNCHANGED handlerVars

NextScript ==
    \/ load_existing_ids
    \/ create_assistant
    \/ save_config
    \/ run_again

SpecScript == InitScript /\ [][NextScript]_vars

\* The store holds four identifiers that all match the format.
FourValid(st) ==
    /\ st.file = "object"
    /\ \A k \in 1..Len(Keys) : IsString(st.values[k]) /\ PatternMatch(st.values[k])

(***************************************************************************)
(* C27: a run of the initialisation on a store with four well-formed       *)
(* identifiers creates nothing and leaves the store as it is; a run on any *)
(* other store in which no creation fails creates the four assistants and  *)
(* writes their identifiers; a run in which a creation fails leaves the    *)
(* store as it is; only a run that created all four writes the store; the  *)
(* run after one that wrote the store creates nothing.                     *)
(***************************************************************************)
C27_InitialisationAllOrNothing ==
    \A k \in 1..Len(hist) :
        LET h == hist[k]
        IN  h.outcome # "running" =>
              /\ FourValid(h.before) =>
                    h.outcome = "exited" /\ h.creates = 0 /\ h.after = h.before
              /\ (~FourValid(h.before) /\ h.outcome # "create_failed") =>
                    h.outcome = "saved" /\ h.creates = Len(Keys) /\ FourValid(h.after)
              /\ h.outcome = "create_failed" => h.after = h.before
              /\ h.after # h.before => h.outcome = "saved" /\ h.creates = Len(Keys)
              /\ (k > 1 /\ hist[k - 1].outcome = "saved") =>
                    h.outcome = "exited" /\ h.creates = 0

\* What holds of every run, a load that raised included: the store is
\* written only by a run that created all four assistants, a store with
\* four well-formed identifiers is left alone, and the run after one that
\* wrote the store creates nothing.
InitialisationFrame ==
    \A k \in 1..Len(hist) :
        LET h == hist[k]
        IN  /\ h.after # h.before =>
                 h.outcome = "saved" /\ h.creates = Len(Keys) /\ FourValid(h.after)
            /\ FourValid(h.before) => h.creates = 0 /\ h.after = h.before
            /\ h.outcome = "saved" => FourValid(h.after)
            /\ (k > 1 /\ hist[k - 1].outcome = "saved") => h.creates = 0

====
